---- MODULE Spec2Model ----
(***************************************************************************)
(* connecting-dots-rs: the State object of src/state.rs (surface           *)
(* configuration, uniforms, particle buffer, the audio driven intensity    *)
(* controller) as a state machine.                                         *)
(*                                                                         *)
(* f32 values of the intensity controller are modelled as exact rationals  *)
(* <<n, d>> in lowest terms with d > 0, so that products, quotients and    *)
(* sums are computed, not assumed.  Pixel sizes and positions are whole    *)
(* numbers, as the u32 -> f32 casts of the source leave them.              *)
(***************************************************************************)
EXTENDS Integers, Sequences, FiniteSets, TLC

(* ------------------------------ bounds -------------------------------- *)

\* Largest window width/height an event delivers.
MaxDim == 2
\* Compute passes counted over one seed of the particle buffer.
MaxDispatches == 1
\* Fragments the record stream holds at a poll.
MaxQueue == 2

(* ------------------------- rational arithmetic ------------------------ *)

Abs(n) == IF n < 0 THEN -n ELSE n

RECURSIVE GCD(_, _)
GCD(a, b) == IF b = 0 THEN a ELSE GCD(b, a % b)

\* The rational n/d (d # 0) in lowest terms with a positive denominator.
Rat(n, d) ==
    LET s == IF d < 0 THEN -1 ELSE 1
        g == GCD(Abs(n), Abs(d))
    IN  <<(s * n) \div g, (s * d) \div g>>

RatAdd(a, b) == Rat(a[1] * b[2] + b[1] * a[2], a[2] * b[2])
RatSub(a, b) == Rat(a[1] * b[2] - b[1] * a[2], a[2] * b[2])
RatMul(a, b) == Rat(a[1] * b[1], a[2] * b[2])
\* b # 0
RatDiv(a, b) == Rat(a[1] * b[2], a[2] * b[1])
RatLt(a, b) == a[1] * b[2] < b[1] * a[2]
RatLeq(a, b) == a[1] * b[2] <= b[1] * a[2]
RatMax(a, b) == IF RatLt(a, b) THEN b ELSE a
RatMin(a, b) == IF RatLt(b, a) THEN b ELSE a

Zero == <<0, 1>>
One == <<1, 1>>

(* ------------------------- program constants -------------------------- *)

\* let intensity = 0.8f32;
InitialIntensity == Rat(8, 10)
\* intensity_multiplier: 1.0
InitialMultiplier == One
\* delta_time / 20.0
TimeConstant == Rat(20, 1)
\* f32::min(.., 100.0)
MaxMultiplier == Rat(100, 1)
\* DeltaTime { dt: 0.016 }
InitialDeltaTime == Rat(16, 1000)
\* let points_count = 1000;
points_count == 1000
\* (self.points_count as u32 + 63) / 64
WorkgroupSize == 64
\* const SAMPLE_COUNT: u32 = 4;
SAMPLE_COUNT == 4
\* ConstantVolumeProvider::new(0.8)
ConstantVolume == Rat(8, 10)

(* ------------------------------ inputs -------------------------------- *)

None == [kind |-> "None"]
Some(v) == [kind |-> "Some", v |-> v]
Err == [kind |-> "Err"]

\* Window widths and heights (u32): zero, the smallest and the largest.
Dims == {0, 1, MaxDim}

\* Peak samples a provider hands out: silence, a usable level, the constant
\* provider's level and levels above unity.
Samples == {Zero, Rat(1, 2), ConstantVolume, Rat(3, 2), Rat(5, 1)}

\* Frame times in seconds (Duration::as_secs_f32): none, Scenario A's 16 s and
\* a gap long enough to take the gain to its cap.
DeltaTimes == {Zero, Rat(16, 1), Rat(2000, 1)}

\* Results of VolumeProvider::poll_volume: anyhow::Result<Option<f32>>.
Polls == {None, Err} \cup {Some(v) : v \in Samples}

\* Results of Surface::get_current_texture.
SurfaceErrors == {"Timeout", "Outdated", "Lost", "OutOfMemory", "Other"}
Acquires == {"Ok"} \cup SurfaceErrors

\* process::id() of this process, and the pid of some other client.
MyPid == 1
OtherPid == 2
\* Height of the monitor the window is on: current_monitor().size().height.
MonitorHeight == 3

HyprClient(pid, at) == [pid |-> pid, at |-> at]

\* What `hyprctl -j clients` prints and Window::current_monitor() answers.
HyprQuery(hypr, monitor) == [hypr |-> hypr, monitor |-> monitor]
HyprClients(cs) == [kind |-> "clients", clients |-> cs]

\* The query fails (the command cannot be run), or finds this process's window
\* at the origin or away from it.
WindowPosQueries ==
    {HyprQuery([kind |-> "cmd_fail"], Some(MonitorHeight)),
     HyprQuery(HyprClients(<<HyprClient(MyPid, <<0, 0>>)>>), Some(MonitorHeight)),
     HyprQuery(HyprClients(<<HyprClient(OtherPid, <<0, 0>>), HyprClient(MyPid, <<1, 1>>)>>),
               Some(MonitorHeight))}

\* What the PulseAudio client library answers while
\* PulseAudioVolumeProvider::new runs, step by step; feature is whether the
\* crate is built with the "pulseaudio" feature.
PulseOk ==
    [feature |-> TRUE, mainloop |-> "Some", proplist |-> "Some", set_str |-> "Ok",
     context |-> "Some", connect |-> "Ok", context_state |-> "Ready",
     default_sink_name |-> "Some", stream |-> "Some", connect_record |-> "Ok",
     stream_state |-> "Ready"]

\* Every step succeeds, or exactly one of them answers otherwise.
PulseEnvs ==
    {PulseOk,
     [PulseOk EXCEPT !.feature = FALSE],
     [PulseOk EXCEPT !.mainloop = "None"],
     [PulseOk EXCEPT !.proplist = "None"],
     [PulseOk EXCEPT !.set_str = "Err"],
     [PulseOk EXCEPT !.context = "None"],
     [PulseOk EXCEPT !.connect = "Err"],
     [PulseOk EXCEPT !.context_state = "Failed"],
     [PulseOk EXCEPT !.context_state = "Terminated"],
     [PulseOk EXCEPT !.default_sink_name = "None"],
     [PulseOk EXCEPT !.stream = "None"],
     [PulseOk EXCEPT !.connect_record = "Err"],
     [PulseOk EXCEPT !.stream_state = "Failed"],
     [PulseOk EXCEPT !.stream_state = "Terminated"]}

\* A fragment of the record stream: a hole, or one or more FLOAT32NE peak
\* samples in order of arrival.
Hole == [kind |-> "Hole"]
Data(items) == [kind |-> "Data", items |-> items]
Fragments ==
    {Hole, Data(<<Rat(1, 2)>>), Data(<<Rat(3, 2)>>), Data(<<Rat(1, 2), Rat(3, 2)>>)}

\* The fragments Mainloop::iterate reads in at one poll: none, one or two.
Arrivals ==
    {<< >>} \cup {<<f>> : f \in Fragments} \cup {<<f, g>> : f \in Fragments, g \in Fragments}

\* How Stream::peek and Stream::discard answer at one poll.
StreamIo == {"Ok", "PeekErr", "DiscardErr"}

\* Every way the query can end: as above, or the output is not JSON, lists no
\* client or only another process's, or the window has no current monitor.
PositionQueries ==
    WindowPosQueries \cup
    {HyprQuery([kind |-> "json_fail"], Some(MonitorHeight)),
     HyprQuery(HyprClients(<< >>), Some(MonitorHeight)),
     HyprQuery(HyprClients(<<HyprClient(OtherPid, <<1, 1>>)>>), Some(MonitorHeight)),
     HyprQuery(HyprClients(<<HyprClient(MyPid, <<1, 1>>)>>), None)}

(* ------------------------------- state -------------------------------- *)

VARIABLES
    config,                  \* SurfaceConfiguration: [width, height]
    is_surface_configured,   \* bool
    msaa_texture_view,       \* extent of the multisampled target: [width, height]
    window_size_buffer,      \* uniform WindowSize.size: <<w, h>>
    window_pos_buffer,       \* uniform WindowSize.size used as position: <<x, y>>
    delta_time_buffer,       \* uniform dt (rational seconds)
    intensity_buffer,        \* uniform intensity (rational)
    last_intensity,          \* f32 (rational)
    intensity_multiplier,    \* f32 (rational)
    points_buffer,           \* [len, first, dispatches]: what the host last wrote
                             \* (its length and first particle) and the number of
                             \* compute passes run over it since
    background_image_state,  \* Option<(pipeline, bind group)>: "None" or "Some"
    redraw_requested,        \* Window::request_redraw was called
    submitted,               \* the command list of the last submitted frame
    panicked,                \* the thread unwound (poll_volume().unwrap())
    call,                    \* the last method called on State: its arguments, for
                             \* resize whether the call before was the same, for
                             \* render its result
    pc,                      \* App::window_event: where the RedrawRequested arm
                             \* stands ("idle" between events, "deliver" when a
                             \* requested redraw is being dispatched)
    logged,                  \* the surface errors log::error! has reported
    exited,                  \* event_loop.exit() was called
    volume_provider,         \* what get_volume_provider returned: "pulse" or
                             \* "constant" ("unset" before the call)
    monitor_stream           \* the record stream's queue of fragments, oldest first

gpuVars == <<config, is_surface_configured, msaa_texture_view, window_size_buffer,
             window_pos_buffer, points_buffer, background_image_state>>
intensityVars == <<delta_time_buffer, intensity_buffer, last_intensity,
                   intensity_multiplier>>
renderVars == <<redraw_requested, submitted>>
appVars == <<pc, logged, exited>>
pulseVars == <<volume_provider, monitor_stream>>
vars == <<gpuVars, intensityVars, renderVars, panicked, call, appVars, pulseVars>>

(* --------------------------- pure functions --------------------------- *)

\* WindowSize with width and height exchanged.
WindowSizeSwapped(w, h) == <<h, w>>

\* WindowSize { size: [width as f32, height as f32] }
WindowSize(w, h) == <<w, h>>

\* random_range(1.0..3.0): a representative of the half-open range [1, 3).  No
\* host code reads a particle's speed; its sign and the position are drawn in
\* full.
Speeds == {1}

\* if invert { -1.0 } else { 1.0 }
Sign(invert) == IF invert THEN -1 ELSE 1

\* One particle as create_points draws it for a width x height viewport:
\* x in 0..width (exclusive), y in 0..height (exclusive), each velocity
\* component a speed times a random sign.  No particle can be drawn when
\* width or height is 0 (random_range panics on an empty range).
Points(width, height) ==
    {[position |-> <<x, y>>, velocity |-> <<vx * Sign(invertx), vy * Sign(inverty)>>] :
        x \in 0..(width - 1), y \in 0..(height - 1),
        invertx \in BOOLEAN, inverty \in BOOLEAN, vx \in Speeds, vy \in Speeds}

\* create_points with a loop that runs once too often (0..=points_count).
create_pointsOneMore(count, window_size) ==
    {[len |-> count + 1, first |-> pt, dispatches |-> 0] :
        pt \in Points(window_size[1], window_size[2])}

\* Every Vec<Point> create_points can return, as the particle buffer holds it
\* after the write: its length and its first element.  The draws come from the
\* thread's random generator, so each call may return any of them.
create_points(count, window_size) ==
    {[len |-> count, first |-> pt, dispatches |-> 0] :
        pt \in Points(window_size[1], window_size[2])}

\* create_msaa_texture reading the configuration as it was before the call
\* that passes cfg.
create_msaa_textureStale(cfg) == [width |-> config.width, height |-> config.height]

\* create_msaa_texture: a texture of the configuration's extent.
create_msaa_texture(cfg) == [width |-> cfg.width, height |-> cfg.height]

\* get_window_pos taking the first client listed, whatever its pid.
get_window_posFirstClient(q, inner_height) ==
    IF q.hypr.kind # "clients" THEN None
    ELSE IF q.hypr.clients = << >> THEN None
    ELSE IF q.monitor = None THEN None
    ELSE Some(<<q.hypr.clients[1].at[1],
                q.monitor.v - (inner_height + q.hypr.clients[1].at[2])>>)

\* get_window_pos: Err is None, Ok(WindowSize { size: [x, y] }) is Some(<<x, y>>).
\* inner_height is window.inner_size().height.
get_window_pos(q, inner_height) ==
    IF q.hypr.kind # "clients" THEN None
    ELSE LET mine == SelectSeq(q.hypr.clients, LAMBDA c : c.pid = MyPid)
         IN  IF mine = << >> THEN None
             ELSE IF q.monitor = None THEN None
             ELSE Some(<<mine[1].at[1],
                         q.monitor.v - (inner_height + mine[1].at[2])>>)

\* .unwrap_or(WindowSize { size: [0.0, 0.0] })
unwrap_or(opt, default) == IF opt = None THEN default ELSE opt.v

\* ResizeGuard with || where the code has &&.
ResizeGuardOr(width, height) == width > 0 \/ height > 0

\* if width > 0 && height > 0
ResizeGuard(width, height) == width > 0 /\ height > 0

\* Candidate with the floor of the decay forgotten.
CandidateNoFloor(poll, last, multiplier, delta_time) ==
    IF poll.kind = "Some"
    THEN RatMul(poll.v, multiplier)
    ELSE RatSub(last, RatDiv(delta_time, TimeConstant))

\* Candidate with the decay forgotten: the last intensity is held.
CandidateNoDecay(poll, last, multiplier, delta_time) ==
    IF poll.kind = "Some"
    THEN RatMul(poll.v, multiplier)
    ELSE RatMax(last, Zero)

\* The first assignment of update: the candidate intensity.
Candidate(poll, last, multiplier, delta_time) ==
    IF poll.kind = "Some"
    THEN RatMul(poll.v, multiplier)
    ELSE RatMax(RatSub(last, RatDiv(delta_time, TimeConstant)), Zero)

\* NewMultiplier with the cap of the ramp forgotten.
NewMultiplierNoCap(intensity, multiplier, delta_time) ==
    IF RatLt(One, intensity) THEN RatDiv(multiplier, intensity)
    ELSE IF intensity # Zero
         THEN RatAdd(multiplier, RatDiv(delta_time, TimeConstant))
         ELSE multiplier

\* NewMultiplier with the rescaling of a clipping candidate forgotten.
NewMultiplierNoRescale(intensity, multiplier, delta_time) ==
    IF RatLt(One, intensity) THEN multiplier
    ELSE IF intensity # Zero
         THEN RatMin(RatAdd(multiplier, RatDiv(delta_time, TimeConstant)), MaxMultiplier)
         ELSE multiplier

\* NewMultiplier ramping by delta_time instead of delta_time / 20.
NewMultiplierNoDivide(intensity, multiplier, delta_time) ==
    IF RatLt(One, intensity) THEN RatDiv(multiplier, intensity)
    ELSE IF intensity # Zero
         THEN RatMin(RatAdd(multiplier, delta_time), MaxMultiplier)
         ELSE multiplier

\* NewMultiplier ramping on a zero candidate too.
NewMultiplierNoZeroTest(intensity, multiplier, delta_time) ==
    IF RatLt(One, intensity) THEN RatDiv(multiplier, intensity)
    ELSE RatMin(RatAdd(multiplier, RatDiv(delta_time, TimeConstant)), MaxMultiplier)

\* NewMultiplier with f32::max where the code has f32::min.
NewMultiplierMaxForMin(intensity, multiplier, delta_time) ==
    IF RatLt(One, intensity) THEN RatDiv(multiplier, intensity)
    ELSE IF intensity # Zero
         THEN RatMax(RatAdd(multiplier, RatDiv(delta_time, TimeConstant)), MaxMultiplier)
         ELSE multiplier

\* The multiplier after the if / else-if of update.
NewMultiplier(intensity, multiplier, delta_time) ==
    IF RatLt(One, intensity) THEN RatDiv(multiplier, intensity)
    ELSE IF intensity # Zero
         THEN RatMin(RatAdd(multiplier, RatDiv(delta_time, TimeConstant)), MaxMultiplier)
         ELSE multiplier

\* Published with the clamp to 1 forgotten.
PublishedUnclamped(intensity) == intensity

\* The intensity after the if / else-if of update: what is written to the
\* uniform and stored.
Published(intensity) == IF RatLt(One, intensity) THEN One ELSE intensity

\* PulseAudioVolumeProvider::new: "Ok", "Err" (an anyhow error returned with ?
\* or ok_or) or "Panic" (an unwrap or panic! reached), the steps in the order
\* the code takes them.
PulseAudioVolumeProvider_new(env) ==
    IF env.mainloop = "None" THEN "Err"
    ELSE IF env.proplist = "None" THEN "Err"
    ELSE IF env.set_str = "Err" THEN "Panic"
    ELSE IF env.context = "None" THEN "Err"
    ELSE IF env.connect = "Err" THEN "Err"
    ELSE IF env.context_state \in {"Failed", "Terminated"} THEN "Panic"
    ELSE IF env.default_sink_name = "None" THEN "Err"
    ELSE IF env.stream = "None" THEN "Err"
    ELSE IF env.connect_record = "Err" THEN "Err"
    ELSE IF env.stream_state \in {"Failed", "Terminated"} THEN "Panic"
    ELSE "Ok"

\* get_volume_provider: the provider returned, or "Panic" when the
\* construction of the live provider unwinds.
get_volume_provider(env) ==
    IF ~env.feature THEN "constant"
    ELSE IF PulseAudioVolumeProvider_new(env) = "Ok" THEN "pulse"
    ELSE IF PulseAudioVolumeProvider_new(env) = "Err" THEN "constant"
    ELSE "Panic"

\* f32::from_ne_bytes(items[len - 4..len]): the last sample of the fragment.
LastSample(items) == items[Len(items)]

\* PulseAudioVolumeProvider::poll_volume on a stream holding the fragments
\* queued, oldest first: peek looks at the oldest.
PulseAudioVolumeProvider_poll_volume(queued, io) ==
    IF io = "PeekErr" THEN Err
    ELSE IF queued = << >> THEN None
    ELSE IF io = "DiscardErr" THEN Err
    ELSE IF queued[1].kind = "Hole" THEN None
    ELSE Some(LastSample(queued[1].items))

\* The stream after that poll: discard drops the fragment peek looked at.
StreamAfterPoll(queued, io) ==
    IF io # "Ok" \/ queued = << >> THEN queued ELSE Tail(queued)

\* ConstantVolumeProvider::poll_volume: Ok(Some(self.intensity)).
ConstantVolumeProvider_poll_volume == Some(ConstantVolume)

\* let num_dispatches = (self.points_count as u32 + 63) / 64;
num_dispatches == (points_count + (WorkgroupSize - 1)) \div WorkgroupSize

\* RenderCommands with the background drawn after the particles.
RenderCommandsBackgroundLast ==
    <<[cmd |-> "dispatch_workgroups", x |-> num_dispatches],
      [cmd |-> "begin_render_pass", samples |-> SAMPLE_COUNT],
      [cmd |-> "draw", pipeline |-> "points", vertices |-> 4, instances |-> points_count]>>
    \o (IF background_image_state = "Some"
        THEN <<[cmd |-> "draw", pipeline |-> "background", vertices |-> 4, instances |-> 1]>>
        ELSE << >>)
    \o <<[cmd |-> "submit"], [cmd |-> "present"]>>

\* The commands render encodes, submits and presents.
RenderCommands ==
    <<[cmd |-> "dispatch_workgroups", x |-> num_dispatches],
      [cmd |-> "begin_render_pass", samples |-> SAMPLE_COUNT]>>
    \o (IF background_image_state = "Some"
        THEN <<[cmd |-> "draw", pipeline |-> "background", vertices |-> 4, instances |-> 1]>>
        ELSE << >>)
    \o <<[cmd |-> "draw", pipeline |-> "points", vertices |-> 4, instances |-> points_count],
         [cmd |-> "submit"], [cmd |-> "present"]>>

(* ------------------------------- Init --------------------------------- *)

\* State::new up to its call of get_volume_provider, for a window of non-zero
\* size (create_points needs one), with or without a background image.
\* window.inner_position() is unsupported (the Wayland case, giving (0, 0)) or
\* the window's position.
InitState ==
    /\ \E w \in Dims \ {0}, h \in Dims \ {0} :
        /\ config = [width |-> w, height |-> h]
        /\ msaa_texture_view = create_msaa_texture([width |-> w, height |-> h])
        /\ window_size_buffer = WindowSize(w, h)
        /\ points_buffer \in create_points(points_count, WindowSize(w, h))
    /\ window_pos_buffer \in {<<0, 0>>, <<1, 1>>}
    /\ is_surface_configured = FALSE
    /\ background_image_state \in {"None", "Some"}
    /\ delta_time_buffer = InitialDeltaTime
    /\ intensity_buffer = InitialIntensity
    /\ last_intensity = InitialIntensity
    /\ intensity_multiplier = InitialMultiplier
    /\ redraw_requested = FALSE
    /\ submitted = << >>
    /\ panicked = FALSE
    /\ call = [op |-> "new"]
    /\ pc = "idle"
    /\ logged = {}
    /\ exited = FALSE
    /\ monitor_stream = << >>

\* State::new returned: get_volume_provider has chosen the provider.
Init ==
    /\ InitState
    /\ volume_provider \in {get_volume_provider(env) : env \in PulseEnvs} \ {"Panic"}

(* ------------------------------ actions ------------------------------- *)

\* State::resize(width, height); q is what the window position query finds and
\* points what create_points draws.  The window's inner size is the size the
\* caller passes (the Resized event's size, or window.inner_size()).
Resize(width, height, q, points) ==
    /\ ~panicked
    /\ IF ResizeGuard(width, height)
       THEN /\ config' = [config EXCEPT !.width = width, !.height = height]
            /\ is_surface_configured' = TRUE
            /\ msaa_texture_view' = create_msaa_texture(config')
            /\ window_size_buffer' = WindowSize(width, height)
            /\ window_pos_buffer' = unwrap_or(get_window_pos(q, height), <<0, 0>>)
            /\ points_buffer' = points
       ELSE UNCHANGED <<config, is_surface_configured, msaa_texture_view,
                        window_size_buffer, window_pos_buffer, points_buffer>>
    /\ call' = [op |-> "resize", width |-> width, height |-> height,
                repeated |-> /\ call.op = "resize"
                             /\ call.width = width
                             /\ call.height = height]
    /\ UNCHANGED <<background_image_state, intensityVars, renderVars, panicked>>

\* State::update(delta_time); poll is what volume_provider.poll_volume() returns.
Update(poll, delta_time) ==
    /\ ~panicked
    /\ delta_time_buffer' = delta_time
    /\ IF poll = Err
       THEN /\ panicked' = TRUE
            /\ UNCHANGED <<intensity_buffer, last_intensity, intensity_multiplier>>
       ELSE \E intensity \in {Candidate(poll, last_intensity, intensity_multiplier, delta_time)} :
                /\ intensity_multiplier' =
                        NewMultiplier(intensity, intensity_multiplier, delta_time)
                /\ intensity_buffer' = Published(intensity)
                /\ last_intensity' = Published(intensity)
                /\ UNCHANGED panicked
    /\ call' = [op |-> "update", poll |-> poll, delta_time |-> delta_time]
    /\ UNCHANGED <<gpuVars, renderVars>>

\* State::render() without its test of is_surface_configured.
RenderUnguarded(acquire) ==
    /\ ~panicked
    /\ redraw_requested' = TRUE
    /\ IF acquire # "Ok"
       THEN /\ call' = [op |-> "render", result |-> acquire]
            /\ UNCHANGED <<points_buffer, submitted>>
       ELSE /\ points_buffer.dispatches < MaxDispatches
            /\ points_buffer' =
                    [points_buffer EXCEPT !.dispatches = points_buffer.dispatches + 1]
            /\ submitted' = RenderCommands
            /\ call' = [op |-> "render", result |-> "Ok"]
    /\ UNCHANGED <<config, is_surface_configured, msaa_texture_view, window_size_buffer,
                   window_pos_buffer, background_image_state, intensityVars, panicked>>

\* State::render(); acquire is what surface.get_current_texture() returns.
Render(acquire) ==
    /\ ~panicked
    /\ redraw_requested' = TRUE
    /\ IF ~is_surface_configured
       THEN /\ call' = [op |-> "render", result |-> "Ok"]
            /\ UNCHANGED <<points_buffer, submitted>>
       ELSE IF acquire # "Ok"
       THEN /\ call' = [op |-> "render", result |-> acquire]
            /\ UNCHANGED <<points_buffer, submitted>>
       ELSE /\ points_buffer.dispatches < MaxDispatches
            /\ points_buffer' =
                    [points_buffer EXCEPT !.dispatches = points_buffer.dispatches + 1]
            /\ submitted' = RenderCommands
            /\ call' = [op |-> "render", result |-> "Ok"]
    /\ UNCHANGED <<config, is_surface_configured, msaa_texture_view, window_size_buffer,
                   window_pos_buffer, background_image_state, intensityVars, panicked>>

\* get_volume_provider(), the last call of State::new; env is what the
\* PulseAudio client library answers.
GetVolumeProvider(env) ==
    /\ ~panicked
    /\ volume_provider = "unset"
    /\ IF get_volume_provider(env) = "Panic"
       THEN /\ panicked' = TRUE
            /\ UNCHANGED volume_provider
       ELSE /\ volume_provider' = get_volume_provider(env)
            /\ UNCHANGED panicked
    /\ call' = [op |-> "get_volume_provider", env |-> env]
    /\ UNCHANGED <<gpuVars, intensityVars, renderVars, appVars, monitor_stream>>

\* State::update with the live provider: Mainloop::iterate reads in the
\* fragments that have arrived, poll_volume peeks and discards.
UpdatePulse(arrivals, io, delta_time) ==
    /\ volume_provider = "pulse"
    /\ Len(monitor_stream) + Len(arrivals) <= MaxQueue
    /\ Update(PulseAudioVolumeProvider_poll_volume(monitor_stream \o arrivals, io),
              delta_time)
    /\ monitor_stream' = StreamAfterPoll(monitor_stream \o arrivals, io)
    /\ UNCHANGED <<appVars, volume_provider>>

\* State::update with the constant provider.
UpdateConstant(delta_time) ==
    /\ volume_provider = "constant"
    /\ Update(ConstantVolumeProvider_poll_volume, delta_time)
    /\ UNCHANGED <<appVars, pulseVars>>

\* AfterUpdate with the call of state.render() forgotten.
AfterUpdateSkipRender == "idle"

\* Where the RedrawRequested arm goes after state.update(delta_time).
AfterUpdate == "render"

\* AfterRender without the Lost | Outdated arm: every error is logged.
AfterRenderNoRecover(result) ==
    IF result = "Ok" THEN "idle" ELSE "log"

\* AfterRender with the resize on every error, not only on Lost | Outdated.
AfterRenderAlwaysRecover(result) ==
    IF result = "Ok" THEN "idle" ELSE "recover"

\* Where the RedrawRequested arm goes on the result of state.render().
AfterRender(result) ==
    IF result = "Ok" THEN "idle"
    ELSE IF result \in {"Lost", "Outdated"} THEN "recover"
    ELSE "log"

\* WindowEvent::Resized(size) => state.resize(size.width, size.height)
Resized(width, height, q, points) ==
    /\ pc = "idle"
    /\ ~exited
    /\ Resize(width, height, q, points)
    /\ UNCHANGED <<appVars, pulseVars>>

\* WindowEvent::CloseRequested => event_loop.exit()
CloseRequested ==
    /\ pc = "idle"
    /\ ~exited
    /\ ~panicked
    /\ exited' = TRUE
    /\ UNCHANGED <<gpuVars, intensityVars, renderVars, panicked, call, pc, logged,
                   pulseVars>>

\* WindowEvent::RedrawRequested, first half: state.update(now - last_update).
RedrawRequested_update(poll, delta_time) ==
    /\ pc = "idle"
    /\ ~exited
    /\ Update(poll, delta_time)
    /\ pc' = AfterUpdate
    /\ UNCHANGED <<logged, exited, pulseVars>>

\* WindowEvent::RedrawRequested: match state.render().
RedrawRequested_render(acquire) ==
    /\ pc = "render"
    /\ Render(acquire)
    /\ pc' = AfterRender(call'.result)
    /\ UNCHANGED <<logged, exited, pulseVars>>

\* Err(Lost | Outdated) => state.resize(inner_size); width and height are what
\* state.window.inner_size() answers.
RedrawRequested_resize(width, height, q, points) ==
    /\ pc = "recover"
    /\ Resize(width, height, q, points)
    /\ pc' = "idle"
    /\ UNCHANGED <<logged, exited, pulseVars>>

\* Err(e) => log::error!("Unable to render {}", e)
RedrawRequested_log ==
    /\ pc = "log"
    /\ ~panicked
    /\ logged' = logged \cup {call.result}
    /\ pc' = "idle"
    /\ UNCHANGED <<gpuVars, intensityVars, renderVars, panicked, call, exited, pulseVars>>

\* The event loop takes the redraw that window.request_redraw() asked for and
\* dispatches WindowEvent::RedrawRequested for it: the request is spent.
EventLoop_redraw ==
    /\ pc = "idle"
    /\ ~exited
    /\ ~panicked
    /\ redraw_requested
    /\ redraw_requested' = FALSE
    /\ pc' = "deliver"
    /\ UNCHANGED <<gpuVars, intensityVars, submitted, panicked, call, logged, exited,
                   pulseVars>>

\* WindowEvent::RedrawRequested dispatched for a requested redraw, first half:
\* state.update(now - last_update).
RedrawRequested_requested(poll, delta_time) ==
    /\ pc = "deliver"
    /\ Update(poll, delta_time)
    /\ pc' = AfterUpdate
    /\ UNCHANGED <<logged, exited, pulseVars>>

(* --------------------------- specifications --------------------------- *)


\* What create_points(points_count, ..) can draw for a width x height window;
\* for an empty window nothing is drawn and the buffer's contents stand in.
Seeds(w, h) ==
    IF w > 0 /\ h > 0
    THEN create_points(points_count, WindowSize(w, h))
    ELSE {points_buffer}

\* The window and the renderer at large: every size, position answer, particle
\* draw and surface result.
NextWindow ==
    /\ \/ \E w \in Dims, h \in Dims, q \in WindowPosQueries :
            \E points \in Seeds(w, h) : Resize(w, h, q, points)
       \/ \E acquire \in Acquires : Render(acquire)
    /\ UNCHANGED <<appVars, pulseVars>>

\* Resizes alone, to a width of at most 1 and every height, with every way the
\* window position query can end.
NextPosition ==
    /\ \E w \in 0..1, h \in Dims, q \in PositionQueries :
         \E points \in Seeds(w, h) : Resize(w, h, q, points)
    /\ UNCHANGED <<appVars, pulseVars>>

\* The constant provider was chosen.
InitWindow == Init /\ volume_provider = "constant"

SpecWindow == InitWindow /\ [][NextWindow]_vars

SpecPosition == InitWindow /\ [][NextPosition]_vars

\* A 1 x 1 window without a background image whose first particle is the one
\* below, fed by the live provider.
InitIntensity ==
    /\ Init
    /\ config = [width |-> 1, height |-> 1]
    /\ window_pos_buffer = <<0, 0>>
    /\ background_image_state = "None"
    /\ points_buffer.first = [position |-> <<0, 0>>, velocity |-> <<1, 1>>]
    /\ volume_provider = "pulse"

\* The intensity controller at large: every poll result and frame time, with
\* renders, and resizes of the 1 x 1 window that find no window position and
\* draw the same particle again.
NextIntensity ==
    /\ \/ \E poll \in Polls, dt \in DeltaTimes : Update(poll, dt)
       \/ \E acquire \in Acquires : Render(acquire)
       \/ \E w \in 0..1, h \in 0..1 :
            Resize(w, h, HyprQuery([kind |-> "cmd_fail"], None),
                   [points_buffer EXCEPT !.dispatches = IF w > 0 /\ h > 0 THEN 0 ELSE @])
    /\ UNCHANGED <<appVars, pulseVars>>

SpecIntensity == InitIntensity /\ [][NextIntensity]_vars

\* The intensity controller alone, every frame an update.
NextSilence ==
    /\ \E poll \in Polls, dt \in DeltaTimes : Update(poll, dt)
    /\ UNCHANGED <<appVars, pulseVars>>

\* A frame of non-zero length in which the provider has no sample.
SilentFrame ==
    /\ \E dt \in DeltaTimes \ {Zero} : Update(None, dt)
    /\ UNCHANGED <<appVars, pulseVars>>

\* render requests the next redraw every time, so frames keep coming; under
\* lasting silence each is a SilentFrame.
SpecSilence == InitIntensity /\ [][NextSilence]_vars /\ WF_vars(SilentFrame)

\* State::new about to call get_volume_provider, for the window of
\* InitIntensity.
InitStartup ==
    /\ InitState
    /\ config = [width |-> 1, height |-> 1]
    /\ window_pos_buffer = <<0, 0>>
    /\ background_image_state = "None"
    /\ points_buffer.first = [position |-> <<0, 0>>, velocity |-> <<1, 1>>]
    /\ volume_provider = "unset"

\* The volume provider from its construction on: every answer of the
\* PulseAudio client library, every arrival of fragments between polls.
NextPulse ==
    \/ \E env \in PulseEnvs : GetVolumeProvider(env)
    \/ \E arrivals \in Arrivals, io \in StreamIo, dt \in DeltaTimes :
         UpdatePulse(arrivals, io, dt)
    \/ \E dt \in DeltaTimes : UpdateConstant(dt)

SpecPulse == InitStartup /\ [][NextPulse]_vars

\* Poll results and frame times of the event loop's frames.
AppPolls == {None, Some(ConstantVolume), Err}
AppDeltaTimes == {Rat(16, 1)}

\* App::window_event at large on a window of at most 1 x 1: redraw ticks,
\* Resized events and a close request, with every surface result; the window
\* position query fails.
NextApp ==
    \/ \E poll \in AppPolls, dt \in AppDeltaTimes : RedrawRequested_update(poll, dt)
    \/ \E acquire \in Acquires : RedrawRequested_render(acquire)
    \/ \E w \in 0..1, h \in 0..1 :
         \E points \in Seeds(w, h) :
            RedrawRequested_resize(w, h, HyprQuery([kind |-> "cmd_fail"], None), points)
    \/ RedrawRequested_log
    \/ \E w \in 0..1, h \in 0..1 :
         \E points \in Seeds(w, h) :
            Resized(w, h, HyprQuery([kind |-> "cmd_fail"], None), points)
    \/ CloseRequested

SpecApp == InitIntensity /\ [][NextApp]_vars

\* Poll results of the frame loop's ticks: no sample, or a failed poll.
LoopPolls == {None, Err}

\* The frame loop: App::window_event as in NextApp, where a redraw tick is
\* either one the window system starts (the first exposure of the window) or
\* one the event loop delivers because render requested it.
NextLoop ==
    \/ \E poll \in LoopPolls, dt \in AppDeltaTimes : RedrawRequested_update(poll, dt)
    \/ EventLoop_redraw
    \/ \E poll \in LoopPolls, dt \in AppDeltaTimes : RedrawRequested_requested(poll, dt)
    \/ \E acquire \in Acquires : RedrawRequested_render(acquire)
    \/ \E w \in 0..1, h \in 0..1 :
         \E points \in Seeds(w, h) :
            RedrawRequested_resize(w, h, HyprQuery([kind |-> "cmd_fail"], None), points)
    \/ RedrawRequested_log
    \/ \E w \in 0..1, h \in 0..1 :
         \E points \in Seeds(w, h) :
            Resized(w, h, HyprQuery([kind |-> "cmd_fail"], None), points)
    \/ CloseRequested

\* The steps of a handler that is running: window_event runs to its end.
HandlerStep ==
    \/ \E poll \in LoopPolls, dt \in AppDeltaTimes : RedrawRequested_requested(poll, dt)
    \/ \E acquire \in Acquires : RedrawRequested_render(acquire)
    \/ \E w \in 0..1, h \in 0..1 :
         \E points \in Seeds(w, h) :
            RedrawRequested_resize(w, h, HyprQuery([kind |-> "cmd_fail"], None), points)
    \/ RedrawRequested_log

\* The event loop delivers the redraws that were requested, and a handler that
\* was entered runs on; the window system's own events come as they will.
SpecLoop ==
    /\ InitIntensity
    /\ [][NextLoop]_vars
    /\ WF_vars(EventLoop_redraw)
    /\ WF_vars(HandlerStep)

(* ------------------------------- claims ------------------------------- *)

\* delta_time / 20.0, as the claims write it.
Decay(dt) == RatDiv(dt, Rat(20, 1))
Hundred == Rat(100, 1)

\* C1: after State::new and after any updates (any samples, any frame times)
\* interleaved with resizes and renders, the stored intensity lies in [0, 1]
\* and is the value the intensity uniform holds.
C1_IntensityInUnitRange ==
    /\ RatLeq(Zero, last_intensity)
    /\ RatLeq(last_intensity, One)
    /\ intensity_buffer = last_intensity

\* A sample above unity was clamped, on a configured surface that has been
\* rendered to.
C1_Witness ==
    /\ call.op = "update"
    /\ call.poll = Some(Rat(3, 2))
    /\ last_intensity = One
    /\ is_surface_configured
    /\ submitted # << >>

\* C2 as stated: the gain multiplier always lies in [1, 100].
C2_MultiplierAtLeastOne ==
    /\ RatLeq(One, intensity_multiplier)
    /\ RatLeq(intensity_multiplier, Hundred)

\* C2 amended: the gain multiplier always lies in (0, 100].
C2_MultiplierInRange ==
    /\ RatLt(Zero, intensity_multiplier)
    /\ RatLeq(intensity_multiplier, Hundred)

\* The multiplier has been ramped to its cap.
C2_Witness ==
    /\ call.op = "update"
    /\ call.poll.kind = "Some"
    /\ intensity_multiplier = Hundred

\* C3: an update whose sample raw gives raw * m > 1 publishes and stores
\* exactly 1 and leaves the multiplier m / (raw * m), strictly below m.
C3_ClippingRescales ==
    [][\A raw \in Samples, dt \in DeltaTimes :
        (Update(Some(raw), dt) /\ RatLt(One, RatMul(raw, intensity_multiplier)))
        => /\ last_intensity' = One
           /\ intensity_buffer' = One
           /\ intensity_multiplier' =
                RatDiv(intensity_multiplier, RatMul(raw, intensity_multiplier))
           /\ RatLt(intensity_multiplier', intensity_multiplier)]_vars

\* Scenario B: from multiplier 1, the sample 1.5 leaves intensity 1 and
\* multiplier 2/3.
C3_Witness ==
    /\ call.op = "update"
    /\ call.poll = Some(Rat(3, 2))
    /\ last_intensity = One
    /\ intensity_multiplier = Rat(2, 3)

\* C4: an update without a sample publishes and stores
\* max(last_intensity - dt/20, 0), which is never negative.
C4_DecayFloorsAtZero ==
    [][\A dt \in DeltaTimes :
        Update(None, dt)
        => /\ last_intensity' = RatMax(RatSub(last_intensity, Decay(dt)), Zero)
           /\ intensity_buffer' = last_intensity'
           /\ RatLeq(Zero, last_intensity')]_vars

\* Scenario A: 16 s without a sample took the intensity to the floor.
C4_Witness ==
    /\ call = [op |-> "update", poll |-> None, delta_time |-> Rat(16, 1)]
    /\ last_intensity = Zero
    /\ intensity_multiplier = One

\* C5: an update whose sample gives a candidate raw * m that is non-zero and
\* at most 1 publishes raw * m and sets the multiplier to min(m + dt/20, 100),
\* which is at most 100.
C5_UsableSampleRamps ==
    [][\A raw \in Samples, dt \in DeltaTimes :
        (/\ Update(Some(raw), dt)
         /\ RatMul(raw, intensity_multiplier) # Zero
         /\ RatLeq(RatMul(raw, intensity_multiplier), One))
        => /\ last_intensity' = RatMul(raw, intensity_multiplier)
           /\ intensity_buffer' = RatMul(raw, intensity_multiplier)
           /\ intensity_multiplier' =
                RatMin(RatAdd(intensity_multiplier, Decay(dt)), Hundred)
           /\ RatLeq(intensity_multiplier', Hundred)]_vars

\* A usable sample of 0.5 after a 2000 s frame was published unchanged and
\* the ramp 1 + 100 was cut to the cap.
C5_Witness ==
    /\ call = [op |-> "update", poll |-> Some(Rat(1, 2)), delta_time |-> Rat(2000, 1)]
    /\ last_intensity = Rat(1, 2)
    /\ intensity_multiplier = Hundred

\* The candidate of an update, as the claims describe it.
ClaimedCandidate(poll, dt) ==
    IF poll = None
    THEN RatMax(RatSub(last_intensity, Decay(dt)), Zero)
    ELSE RatMul(poll.v, intensity_multiplier)

\* C6: an update whose candidate is zero (a sample of 0, or no sample with
\* last_intensity - dt/20 <= 0) publishes 0 and leaves the multiplier alone.
C6_ZeroCandidateKeepsMultiplier ==
    [][\A poll \in Polls \ {Err}, dt \in DeltaTimes :
        (Update(poll, dt) /\ ClaimedCandidate(poll, dt) = Zero)
        => /\ last_intensity' = Zero
           /\ intensity_buffer' = Zero
           /\ intensity_multiplier' = intensity_multiplier]_vars

\* Scenario D with a multiplier that is not the initial one: a sample of 0
\* after a long frame left intensity 0 and the multiplier where it was.
C6_Witness ==
    /\ call = [op |-> "update", poll |-> Some(Zero), delta_time |-> Rat(2000, 1)]
    /\ last_intensity = Zero
    /\ intensity_multiplier = Rat(2, 3)

\* C7 as stated: an update without a sample never increases the multiplier.
C7_DecayNeverRaises ==
    [][\A dt \in DeltaTimes :
        Update(None, dt) => RatLeq(intensity_multiplier', intensity_multiplier)]_vars

\* C7 amended: an update without a sample leaves the multiplier alone when the
\* decayed intensity max(last_intensity - dt/20, 0) is 0, and otherwise sets it
\* to min(m + dt/20, 100).
C7_DecayRaisesWhileAudible ==
    [][\A dt \in DeltaTimes :
        Update(None, dt)
        => intensity_multiplier' =
            IF RatMax(RatSub(last_intensity, Decay(dt)), Zero) = Zero
            THEN intensity_multiplier
            ELSE RatMin(RatAdd(intensity_multiplier, Decay(dt)), Hundred)]_vars

\* An update without a sample, 16 s after a clipping sample of 1.5, left the
\* intensity 1 - 0.8 and raised the multiplier from 2/3 to 2/3 + 0.8.
C7_Witness ==
    /\ call = [op |-> "update", poll |-> None, delta_time |-> Rat(16, 1)]
    /\ last_intensity = Rat(1, 5)
    /\ intensity_multiplier = Rat(22, 15)

\* The last call was an update that found no sample.
Silent == call.op = "update" /\ call.poll = None

\* C8: if from some frame on no sample arrives and frames have non-zero length,
\* the intensity eventually is 0 and stays 0; each such frame lowers it by
\* dt/20 or takes it to 0 (so an accumulated 20 s suffice from any intensity
\* <= 1, and one frame of 20 s or more alone), and once it is 0 it stays 0 and
\* the multiplier is frozen.
C8_SilenceDecaysToZero ==
    /\ (<>[]Silent) => <>[](last_intensity = Zero)
    /\ [][\A dt \in DeltaTimes :
            Update(None, dt)
            => /\ RatLeq(last_intensity', last_intensity)
               /\ \/ last_intensity' = Zero
                  \/ last_intensity' = RatSub(last_intensity, Decay(dt))
               /\ RatLeq(Rat(20, 1), dt) => last_intensity' = Zero
               /\ last_intensity = Zero
                    => /\ last_intensity' = Zero
                       /\ intensity_multiplier' = intensity_multiplier]_vars

\* Silence after a clipping sample: the intensity has decayed from 1 to 0 in
\* two frames of 16 s, the multiplier raised once on the way and then frozen.
C8_Witness ==
    /\ Silent
    /\ call.delta_time = Rat(16, 1)
    /\ last_intensity = Zero
    /\ intensity_multiplier = Rat(22, 15)

\* C9: a resize with a zero width or a zero height leaves the surface
\* configuration, the configured flag, the MSAA target, the window-size and
\* window-position uniforms and the particle buffer as they were.
C9_ZeroResizeIsNoOp ==
    [][(/\ call'.op = "resize"
        /\ (call'.width = 0 \/ call'.height = 0))
       => UNCHANGED <<config, is_surface_configured, msaa_texture_view,
                      window_size_buffer, window_pos_buffer, points_buffer>>]_vars

\* A resize to zero width came to a configured 1 x 1 surface whose window was
\* found away from the origin and whose particles a compute pass has moved.
C9_Witness ==
    /\ call.op = "resize"
    /\ call.width = 0
    /\ call.height > 0
    /\ is_surface_configured
    /\ config = [width |-> 1, height |-> 1]
    /\ window_pos_buffer # <<0, 0>>
    /\ points_buffer.dispatches > 0

\* C10 as stated: a resize repeating the size of the resize right before it
\* leaves the window-size uniform, the window-position uniform and the
\* contents of the particle buffer as the first left them.
C10_RepeatedResizeSameState ==
    [][(/\ call'.op = "resize"
        /\ call'.repeated
        /\ call'.width > 0
        /\ call'.height > 0)
       => /\ window_size_buffer' = window_size_buffer
          /\ window_pos_buffer' = window_pos_buffer
          /\ points_buffer' = points_buffer]_vars

\* C10 amended: a resize repeating the non-zero size of the resize right
\* before it leaves the surface configuration, the configured flag, the MSAA
\* target and the window-size uniform as the first left them, the uniform
\* being (w, h); the particle buffer holds as many particles as before, drawn
\* anew inside the w x h viewport, and the window-position uniform holds what
\* the position query of this call answers, or (0, 0).
C10_RepeatedResizeSameGeometry ==
    [][(/\ call'.op = "resize"
        /\ call'.repeated
        /\ call'.width > 0
        /\ call'.height > 0)
       => /\ config' = config
          /\ is_surface_configured' /\ is_surface_configured
          /\ msaa_texture_view' = msaa_texture_view
          /\ window_size_buffer' = window_size_buffer
          /\ window_size_buffer' = <<call'.width, call'.height>>
          /\ points_buffer'.len = points_buffer.len
          /\ points_buffer'.dispatches = 0
          /\ points_buffer'.first \in Points(call'.width, call'.height)
          /\ \E q \in WindowPosQueries :
                window_pos_buffer' =
                    unwrap_or(get_window_pos(q, call'.height), <<0, 0>>)]_vars

\* The second of two resizes to 1 x 2 found the window away from the origin
\* and drew a first particle at (0, 1) moving left and up.
C10_Witness ==
    /\ call = [op |-> "resize", width |-> 1, height |-> 2, repeated |-> TRUE]
    /\ window_size_buffer = <<1, 2>>
    /\ window_pos_buffer = <<1, 0>>
    /\ points_buffer.first = [position |-> <<0, 1>>, velocity |-> <<-1, -1>>]

\* C11: after any resizes, updates and renders the particle buffer holds
\* points_count (1000) particles, and the frame last submitted dispatched
\* ceil(points_count / 64) workgroups of 64 and drew points_count instances:
\* the count the buffer holds.
C11_ParticleCountFixed ==
    /\ points_buffer.len = points_count
    /\ points_count = 1000
    /\ submitted # << >>
        => /\ submitted[1].cmd = "dispatch_workgroups"
           /\ (submitted[1].x - 1) * WorkgroupSize < points_buffer.len
           /\ submitted[1].x * WorkgroupSize >= points_buffer.len
           /\ \E i \in DOMAIN submitted :
                /\ submitted[i].cmd = "draw"
                /\ submitted[i].pipeline = "points"
                /\ submitted[i].instances = points_buffer.len

\* A frame was drawn, a resize then seeded the particles anew, and the next
\* tick has run its update.
C11_Witness ==
    /\ call.op = "update"
    /\ pc = "render"
    /\ submitted # << >>
    /\ is_surface_configured
    /\ points_buffer.dispatches = 0

\* render of this tick returned SurfaceError::Lost or SurfaceError::Outdated.
SurfaceGone == call.op = "render" /\ call.result \in {"Lost", "Outdated"}

\* C12 as stated: when render returned Lost or Outdated, the same tick goes on
\* to configure the surface to the window's inner size, the process neither
\* exits nor unwinds, and the event loop is back between events, where the
\* next redraw tick starts with its update.
C12_LostReconfigures ==
    [][SurfaceGone
       => /\ call'.op = "resize"
          /\ config' = [width |-> call'.width, height |-> call'.height]
          /\ is_surface_configured'
          /\ ~exited' /\ ~panicked'
          /\ pc' = "idle"]_vars

\* C12 amended: when render returned Lost or Outdated, the same tick calls
\* resize with the window's inner size; if both dimensions are non-zero the
\* surface, the MSAA target and the window-size uniform are set to it, if one
\* is zero they stay as they were; the process neither exits nor unwinds and
\* the event loop is back between events.
C12_LostResizesToInnerSize ==
    [][SurfaceGone
       => /\ call'.op = "resize"
          /\ IF call'.width > 0 /\ call'.height > 0
             THEN /\ config' = [width |-> call'.width, height |-> call'.height]
                  /\ msaa_texture_view' = [width |-> call'.width, height |-> call'.height]
                  /\ window_size_buffer' = <<call'.width, call'.height>>
             ELSE UNCHANGED <<config, msaa_texture_view, window_size_buffer,
                              window_pos_buffer, points_buffer>>
          /\ is_surface_configured'
          /\ ~exited' /\ ~panicked'
          /\ pc' = "idle"]_vars

\* render has returned Outdated on a surface that had shown a frame, and the
\* tick stands before its resize.
C12_Witness ==
    /\ SurfaceGone
    /\ call.result = "Outdated"
    /\ pc = "recover"
    /\ submitted # << >>

\* The surface errors other than Lost and Outdated.
OtherErrors == SurfaceErrors \ {"Lost", "Outdated"}

\* C13: a render that returns an error other than Lost or Outdated submits and
\* presents nothing and leaves the surface configuration, the MSAA target, the
\* uniforms and the particle buffer as they were; the caller then only logs
\* the error, changing nothing else; the process neither exits nor unwinds and
\* the event loop is back between events for the next tick.
C13_OtherErrorsOnlyLogged ==
    /\ [][(pc = "render" /\ call'.op = "render" /\ call'.result \in OtherErrors)
          => /\ pc' = "log"
             /\ UNCHANGED <<submitted, config, is_surface_configured, msaa_texture_view,
                            window_size_buffer, window_pos_buffer, points_buffer,
                            delta_time_buffer, intensity_buffer, logged, exited,
                            panicked>>]_vars
    /\ [][pc = "log"
          => /\ call.result \in OtherErrors
             /\ logged' = logged \cup {call.result}
             /\ pc' = "idle"
             /\ UNCHANGED <<gpuVars, intensityVars, renderVars, panicked, exited, call>>
             /\ ~exited /\ ~panicked]_vars

\* A timeout of the surface, after a frame had been shown, has been logged and
\* the event loop is between events.
C13_Witness ==
    /\ pc = "idle"
    /\ call.op = "render"
    /\ call.result = "Timeout"
    /\ "Timeout" \in logged
    /\ submitted # << >>
    /\ ~exited

\* The construction failures C14 lists: no main loop, no context, a connection
\* that is refused or ends Failed or Terminated, no default sink, no monitor
\* stream, a monitor stream whose connection is refused or ends Failed or
\* Terminated.
ListedFailures ==
    {env \in PulseEnvs :
        /\ env.feature
        /\ env.proplist = "Some"
        /\ env.set_str = "Ok"
        /\ env # PulseOk}

\* C14: whichever listed step of the live provider's construction fails,
\* get_volume_provider returns the constant provider and nothing unwinds.
C14_ConstructionFailureFallsBack ==
    [][\A env \in ListedFailures :
        GetVolumeProvider(env)
        => /\ volume_provider' = "constant"
           /\ ~panicked']_vars

\* The newest sample among the fragments that arrived since the last poll, as
\* a poll result: None when no sample arrived.
RECURSIVE Newest(_)
Newest(arrivals) ==
    IF arrivals = << >> THEN None
    ELSE IF arrivals[Len(arrivals)].kind = "Data"
         THEN Some(LastSample(arrivals[Len(arrivals)].items))
         ELSE Newest(SubSeq(arrivals, 1, Len(arrivals) - 1))

\* C15: a poll of the live provider whose peek and discard succeed returns the
\* newest sample that arrived since the poll before, or nothing when none
\* arrived; a poll of the constant provider returns its configured value.
C15_PollReturnsNewest ==
    [][/\ \A arrivals \in Arrivals, dt \in DeltaTimes :
            UpdatePulse(arrivals, "Ok", dt) => call'.poll = Newest(arrivals)
       /\ \A dt \in DeltaTimes :
            UpdateConstant(dt) => call'.poll = Some(ConstantVolume)]_vars

\* The position of the first command of a kind in a submitted frame, 0 when
\* there is none.
IndexOf(cmds, Is(_)) ==
    IF \E i \in DOMAIN cmds : Is(cmds[i])
    THEN CHOOSE i \in DOMAIN cmds : Is(cmds[i]) /\ \A j \in 1..(i - 1) : ~Is(cmds[j])
    ELSE 0

IsDispatch(c) == c.cmd = "dispatch_workgroups"
IsPointsDraw(c) == c.cmd = "draw" /\ c.pipeline = "points"
IsSubmit(c) == c.cmd = "submit"
IsPresent(c) == c.cmd = "present"

\* C16: a redraw tick is one update and then one render: an update starts
\* only between events, the step after an update is the render, which finds
\* the delta-time and intensity uniforms written by that update, and the step
\* after a render is not a render; no resize comes between the two; a
\* submitted frame has its compute dispatch before its particle draw before
\* submit before present.
C16_UpdateThenRender ==
    /\ [][/\ (call.op = "update" /\ ~panicked)
              => /\ pc = "render"
                 /\ call'.op = "render"
                 /\ delta_time_buffer = call.delta_time
                 /\ intensity_buffer = last_intensity
                 /\ UNCHANGED intensityVars
                 /\ pc' # "render"
          /\ call'.op = "update" => pc = "idle" /\ call.op # "update"
          /\ call'.op = "resize" => pc # "render"
          /\ call'.op = "render" => call.op \in {"update", "render"}]_vars
    /\ [](submitted # << >>
            => /\ 0 < IndexOf(submitted, IsDispatch)
               /\ IndexOf(submitted, IsDispatch) < IndexOf(submitted, IsPointsDraw)
               /\ IndexOf(submitted, IsPointsDraw) < IndexOf(submitted, IsSubmit)
               /\ IndexOf(submitted, IsSubmit) < IndexOf(submitted, IsPresent))

\* A whole tick has run: the update wrote a frame time of 16 s and the render
\* that followed submitted a frame.
C16_Witness ==
    /\ pc = "idle"
    /\ call = [op |-> "render", result |-> "Ok"]
    /\ delta_time_buffer = Rat(16, 1)
    /\ submitted # << >>
    /\ points_buffer.dispatches > 0

IsBackgroundDraw(c) == c.cmd = "draw" /\ c.pipeline = "background"
IsRenderPass(c) == c.cmd = "begin_render_pass"

\* C17: a submitted frame holds, when a background was created at startup,
\* exactly one background draw, of 4 vertices and 1 instance, inside the
\* render pass and before the particle draw, and no background draw
\* otherwise; no call creates, drops or replaces the background pair.
C17_BackgroundDrawnFirst ==
    /\ [](submitted # << >>
            => LET bg == {i \in DOMAIN submitted : IsBackgroundDraw(submitted[i])}
               IN  IF background_image_state = "Some"
                   THEN /\ Cardinality(bg) = 1
                        /\ \A i \in bg :
                            /\ submitted[i].vertices = 4
                            /\ submitted[i].instances = 1
                            /\ IndexOf(submitted, IsRenderPass) < i
                            /\ i < IndexOf(submitted, IsPointsDraw)
                   ELSE bg = {})
    /\ [][background_image_state' = background_image_state]_vars

\* A frame with the background was drawn and a resize to another size came
\* after it.
C17_Witness ==
    /\ background_image_state = "Some"
    /\ submitted # << >>
    /\ call.op = "resize"
    /\ call.width > 0 /\ call.height > 0
    /\ points_buffer.dispatches = 0

\* The window position query fails as C18 lists: the command cannot be run or
\* its output is not JSON, no record has this process's pid, or the window has
\* no current monitor.
QueryFails(q) ==
    \/ q.hypr.kind # "clients"
    \/ \A i \in DOMAIN q.hypr.clients : q.hypr.clients[i].pid # MyPid
    \/ q.monitor = None

\* C18: a resize with non-zero dimensions writes the size uniform and the
\* freshly drawn particles whatever the window position query does, and does
\* not unwind; it writes (0, 0) as the position when the query fails, and
\* otherwise the position of a record whose pid is this process's, turned to
\* a top-left origin with the monitor's height.
C18_PositionFallsBackToOrigin ==
    [][(call'.op = "resize" /\ call'.width > 0 /\ call'.height > 0)
       => /\ window_size_buffer' = <<call'.width, call'.height>>
          /\ points_buffer' \in create_points(points_count, <<call'.width, call'.height>>)
          /\ ~panicked'
          /\ \A q \in PositionQueries :
                Resize(call'.width, call'.height, q, points_buffer')
                => IF QueryFails(q)
                   THEN window_pos_buffer' = <<0, 0>>
                   ELSE \E i \in DOMAIN q.hypr.clients :
                         /\ q.hypr.clients[i].pid = MyPid
                         /\ window_pos_buffer' =
                             <<q.hypr.clients[i].at[1],
                               q.monitor.v - (call'.height + q.hypr.clients[i].at[2])>>]_vars

\* A resize repeating the one before it ended with the position (0, 0), which
\* no answer of the query gives for a window this high.
C18_Witness ==
    /\ call.op = "resize"
    /\ call.width = 1 /\ call.height = 1
    /\ call.repeated
    /\ window_pos_buffer = <<0, 0>>
    /\ window_size_buffer = <<1, 1>>

\* C19: an update whose poll returns an error does not unwind the thread.
C19_PollErrorNotFatal ==
    [][\A dt \in DeltaTimes : Update(Err, dt) => ~panicked']_vars

\* C20: the MSAA target, the surface configuration and the window-size
\* uniform always hold the same (w, h); a resize with non-zero dimensions
\* makes it the size passed, every other call leaves it.
C20_SizesAgree ==
    /\ [](/\ msaa_texture_view = [width |-> config.width, height |-> config.height]
          /\ window_size_buffer = <<config.width, config.height>>
          /\ config.width > 0 /\ config.height > 0)
    /\ [][IF call'.op = "resize" /\ call'.width > 0 /\ call'.height > 0
          THEN config' = [width |-> call'.width, height |-> call'.height]
          ELSE config' = config]_vars

\* After a frame was shown on a surface less wide than high, a resize to zero
\* width came.
C20_Witness ==
    /\ call.op = "resize"
    /\ call.width = 0
    /\ config.width < config.height
    /\ is_surface_configured
    /\ submitted # << >>

\* C21: is_surface_configured starts false; it changes only in a resize with
\* non-zero width and height, which sets it, and every such resize sets it; once
\* true it stays true.  While it is false a render returns Ok whatever the
\* surface would answer, and leaves the particle buffer and the submitted
\* commands as they were (no image acquired, nothing dispatched or drawn),
\* while the update of the same tick writes the frame time and moves
\* last_intensity and the multiplier by the controller's rule as on a
\* configured surface.
C21_ConfiguredByFirstResize ==
    /\ [][/\ (call.op = "new" => ~is_surface_configured)
          /\ (is_surface_configured' # is_surface_configured
                => /\ call'.op = "resize"
                   /\ call'.width > 0 /\ call'.height > 0)
          /\ ((call' # call /\ call'.op = "resize"
                 /\ call'.width > 0 /\ call'.height > 0)
                => is_surface_configured')
          /\ (is_surface_configured => is_surface_configured')]_vars
    /\ [][(~is_surface_configured /\ pc = "render")
          => /\ call'.op = "render"
             /\ call'.result = "Ok"
             /\ redraw_requested'
             /\ pc' = "idle"
             /\ UNCHANGED <<points_buffer, submitted, gpuVars, logged>>]_vars
    /\ [][(~is_surface_configured /\ pc = "idle" /\ call'.op = "update"
             /\ call'.poll # Err)
          => /\ delta_time_buffer' = call'.delta_time
             /\ \E intensity \in {Candidate(call'.poll, last_intensity,
                                            intensity_multiplier, call'.delta_time)} :
                  /\ last_intensity' = Published(intensity)
                  /\ intensity_multiplier' =
                        NewMultiplier(intensity, intensity_multiplier, call'.delta_time)
             /\ pc' = "render"]_vars

\* A tick has ended on a surface never configured: its render returned Ok with
\* nothing dispatched or submitted, and the updates so far have written the
\* frame time and raised the multiplier.
C21_Witness ==
    /\ ~is_surface_configured
    /\ call.op = "render"
    /\ call.result = "Ok"
    /\ pc = "idle"
    /\ redraw_requested
    /\ submitted = << >>
    /\ points_buffer.dispatches = 0
    /\ delta_time_buffer = Rat(16, 1)
    /\ RatLt(InitialMultiplier, intensity_multiplier)

\* C22 as stated: every call of render requests a further redraw, and a redraw
\* tick is always eventually followed by another until a close request is
\* observed: the update of a tick is followed by that tick's render, and a
\* render, whether it returned early on an unconfigured surface, failed with a
\* surface error or presented a frame, by the update of a later tick, unless
\* the event loop was told to exit.
C22_FrameLoopNeverStalls ==
    /\ [][pc = "render" => (call'.op = "render" /\ redraw_requested')]_vars
    /\ (call.op = "update") ~> (call.op = "render" \/ exited)
    /\ (call.op = "render") ~> (call.op = "update" \/ exited)

\* C22, the part about render: every call of render requests a redraw, and a
\* tick that reached its render is followed by the update of a later tick
\* unless the event loop was told to exit, for each of render's outcomes.
C22_RenderedTickIsFollowed ==
    /\ [][pc = "render" => (call'.op = "render" /\ redraw_requested')]_vars
    /\ (call.op = "render" /\ ~is_surface_configured)
            ~> (call.op = "update" \/ exited)
    /\ (call.op = "render" /\ call.result \in SurfaceErrors)
            ~> (call.op = "update" \/ exited)
    /\ (call.op = "render" /\ is_surface_configured /\ call.result = "Ok")
            ~> (call.op = "update" \/ exited)

====
